---- MODULE Spec2Model ----
(***************************************************************************)
(* Model of Grav-Nav-RL-Multiplayer: the Hohmann guidance client           *)
(* (src/hohman_client.py) and the orbital engines (src/environment.py).    *)
(*                                                                         *)
(* Numbers.  The program computes in floating point.  The model computes   *)
(* in fixed point: a real v is the integer v * Scale, divisions truncate   *)
(* toward zero and square roots round down.  Angles are counted in         *)
(* eighths of a turn (pi/4), rounded down, so the eight compass directions *)
(* are exact.  The telemetry the model feeds in is chosen on grid points   *)
(* whose radius and radial velocity are exact.                             *)
(***************************************************************************)
EXTENDS Integers, Sequences, FiniteSets, TLC

VARIABLES
    pc,                  \* main: "connect", "loop" or "exit"
    main_result,         \* main: "running", "returned" (normal return) or "raised"
    my_ship_id,          \* global my_ship_id ("None" until assigned)
    cached_state,        \* global cached_state (valid = FALSE is None)
    first_burn_applied,  \* global first_burn_applied
    second_burn_applied, \* global second_burn_applied
    prev_v_rad,          \* choose_action.prev_v_rad (set = FALSE: attribute absent)
    ev,                  \* history: the message handled last and what the loop did with it
    hist,                \* history: faults, burns emitted, last matching snapshot
    env,                 \* the OrbitalEnvironment object (made = FALSE: not constructed)
    sev,                 \* the last call of the single-body step and what it returned
    ships,               \* MultiShipOrbitalEnvironment.ships, in insertion order
    current_step,        \* MultiShipOrbitalEnvironment.current_step
    mev,                 \* history: the last call of the multi-body step, when logged
    probe                \* the last evaluation of the two acceleration functions

gvars == <<pc, main_result, my_ship_id, cached_state, first_burn_applied,
           second_burn_applied, prev_v_rad, ev, hist>>

mvars == <<ships, current_step, mev>>

svars == <<env, sev>>

vars == <<gvars, svars, mvars, probe>>

----------------------------------------------------------------------------
(* Fixed-point arithmetic *)

Scale == 2 * 5

Abs(a) == IF a >= 0 THEN a ELSE -a

\* a / b of the program, truncated toward zero (b > 0)
Quot(a, b) == IF a >= 0 THEN a \div b ELSE -((-a) \div b)

RECURSIVE SqrtSearch(_, _, _)
SqrtSearch(n, lo, hi) ==
    IF lo >= hi THEN lo
    ELSE LET mid == (lo + hi + 1) \div 2 IN
         IF mid * mid <= n THEN SqrtSearch(n, mid, hi) ELSE SqrtSearch(n, lo, mid - 1)

\* math.sqrt / np.sqrt on integers, rounded down
ISqrt(n) == SqrtSearch(n, 0, IF n < 46340 THEN n ELSE 46340)

\* math.atan2(y, x) in units of pi/4, rounded down; atan2(0, 0) = 0
Atan2(y, x) ==
    IF y = 0 THEN (IF x >= 0 THEN 0 ELSE 4)
    ELSE IF y > 0
         THEN IF x > 0 THEN (IF y < x THEN 0 ELSE 1)
              ELSE IF x = 0 THEN 2
              ELSE (IF y > -x THEN 2 ELSE 3)
         ELSE IF x > 0 THEN (IF -y <= x THEN -1 ELSE -2)
              ELSE IF x = 0 THEN -2
              ELSE (IF -y >= -x THEN -3 ELSE -4)

----------------------------------------------------------------------------
(* src/hohman_client.py: configuration and constants *)

TARGET_RADIUS == 1 * Scale
GM == 1 * Scale
\* dt = 1.0/60.0: dividing by dt multiplies by 60
TicksPerSecond == 60
\* the telemetry log runs when tick % 60 == 0
DiagPeriod == 60
\* the radius guard 1e-5, on the grid
RadiusEps == Scale \div 100000
\* the proximity gate 0.1, on the grid
NearTol == Scale \div 10
\* pi and 2*pi in units of pi/4
PiUnits == 4

----------------------------------------------------------------------------
(* Inputs the model feeds to the client *)

MaxTick == 1
Ticks == {0} \cup {DiagPeriod + k : k \in 1..MaxTick}

ShipIds == {"s1", "s2"}

\* radius 0, 1.0 (off and on the x axis) and 2.0
TelemetryPositions == {<<0, 0>>, <<6, 8>>, <<Scale, 0>>, <<2 * Scale, 0>>}
TelemetryVelocities == {<<0, Scale>>, <<Scale, 0>>, <<-Scale, 0>>}
\* has = FALSE: the snapshot has no heading key
TelemetryHeadings == {[has |-> FALSE, val |-> 0], [has |-> TRUE, val |-> 3]}

NoState == [valid |-> FALSE, tick |-> 0, x |-> 0, y |-> 0, vx |-> 0, vy |-> 0, heading |-> 0]
NoPrev == [set |-> FALSE, val |-> 0]
NoCmd == [sent |-> FALSE, tick |-> 0, turn |-> 0, thrust |-> 0]

----------------------------------------------------------------------------
(* src/hohman_client.py: math helpers *)

compute_radius(x, y) == ISqrt(x * x + y * y)

get_orbit_direction(x, y, vx, vy) == IF x * vy - y * vx >= 0 THEN 1 ELSE -1

\* raised: x/r divides by zero when r = 0
calculate_maneuver_vector(x, y, vx, vy, target_speed) ==
    LET r == ISqrt(x * x + y * y) IN
    IF r = 0 THEN [raised |-> TRUE, thrust |-> 0, heading |-> 0, dv |-> 0]
    ELSE
    LET direction == get_orbit_direction(x, y, vx, vy)
        nx == Quot(x * Scale, r)
        ny == Quot(y * Scale, r)
        tx == IF direction = 1 THEN -ny ELSE ny
        ty == IF direction = 1 THEN nx ELSE -nx
        target_vx == Quot(tx * target_speed, Scale)
        target_vy == Quot(ty * target_speed, Scale)
        dv_x == target_vx - vx
        dv_y == target_vy - vy
        dv_mag == ISqrt(dv_x * dv_x + dv_y * dv_y)
    IN [raised |-> FALSE, thrust |-> dv_mag * TicksPerSecond,
        heading |-> Atan2(dv_y, dv_x), dv |-> dv_mag]

\* E, a and e are only printed; what reaches the caller is whether the
\* computation raises.  GM/r raises for r = 0.  -GM/(2*E) is guarded by
\* abs(E) >= 1e-6, h2/(GM*a) has a non-zero (or infinite) a, and the square
\* root is guarded by term <= 1.0.
calculate_orbital_elements(x, y, vx, vy) ==
    LET r == ISqrt(x * x + y * y) IN [raised |-> (r = 0)]

----------------------------------------------------------------------------
(* src/hohman_client.py: choose_action *)

\* The result of one call: raised, or the (thrust, heading) returned, with
\* the values the globals have after the call.  burn is 1 or 2 when the call
\* took the injection or the circularization branch.
Ret(raised, thrust, heading, first, second, prev, burn) ==
    [raised |-> raised, thrust |-> thrust, heading |-> heading,
     first |-> first, second |-> second, prev |-> prev, burn |-> burn]

v_rad_of(cs) ==
    LET r == compute_radius(cs.x, cs.y) IN
    IF r > RadiusEps THEN Quot(cs.x * cs.vx + cs.y * cs.vy, r) ELSE 0

near_target_of(cs) == Abs(compute_radius(cs.x, cs.y) - TARGET_RADIUS) < NearTol

\* the sign flip alone, without the test of the radius
apsis_gate_ungated(apsis_reached, near_target) == apsis_reached

apsis_gate(apsis_reached, near_target) == apsis_reached /\ near_target

\* getattr(choose_action, "prev_v_rad", v_rad)
prev_or_default(prev, v_rad) == IF prev.set THEN prev.val ELSE v_rad

choose_action(cs, first, second, prev) ==
    IF ~cs.valid THEN Ret(FALSE, 0, 0, first, second, prev, 0)
    ELSE
    LET x == cs.x
        y == cs.y
        vx == cs.vx
        vy == cs.vy
        tick == cs.tick
        r == compute_radius(x, y)
        v_rad == v_rad_of(cs)
    IN
    IF tick % DiagPeriod = 0 /\ calculate_orbital_elements(x, y, vx, vy).raised
    THEN Ret(TRUE, 0, 0, first, second, prev, 0)
    ELSE IF ~first THEN
        \* 2/r1 raises for r1 = 0
        IF r = 0 THEN Ret(TRUE, 0, 0, first, second, prev, 0)
        ELSE
        LET r1 == r
            r2 == TARGET_RADIUS
            a_transfer == Quot(r1 + r2, 2)
            v_transfer_req ==
                ISqrt((Quot(2 * Scale * Scale, r1) - Quot(Scale * Scale, a_transfer)) * Scale)
            mv == calculate_maneuver_vector(x, y, vx, vy, v_transfer_req)
        IN IF mv.raised THEN Ret(TRUE, 0, 0, first, second, prev, 0)
           ELSE Ret(FALSE, mv.thrust, mv.heading, TRUE, second, prev, 1)
    ELSE
    LET prev0 == prev_or_default(prev, v_rad)
        prev1 == [set |-> TRUE, val |-> v_rad]
        apsis_reached == prev0 * v_rad < 0
        near_target == Abs(r - TARGET_RADIUS) < NearTol
    IN
    IF ~second THEN
        IF apsis_gate(apsis_reached, near_target) THEN
            LET v_circ_req == ISqrt(Quot(GM * Scale, r) * Scale)
                mv == calculate_maneuver_vector(x, y, vx, vy, v_circ_req)
            IN IF mv.raised THEN Ret(TRUE, 0, 0, first, second, prev1, 0)
               ELSE Ret(FALSE, mv.thrust, mv.heading, first, TRUE, prev1, 2)
        ELSE Ret(FALSE, 0, Atan2(vy, vx), first, second, prev1, 0)
    ELSE Ret(FALSE, 0, Atan2(vy, vx), first, second, prev1, 0)

----------------------------------------------------------------------------
(* src/hohman_client.py: send_manual_control *)

\* diff = (diff + pi) % (2*pi) - pi
wrap_heading(diff) == ((diff + PiUnits) % (2 * PiUnits)) - PiUnits

\* The message sent, or NoCmd when the function returns without sending.
send_manual_control(cs, tick, thrust, target_heading) ==
    IF ~cs.valid THEN NoCmd
    ELSE LET current_heading == cs.heading
             diff == wrap_heading(target_heading - current_heading)
             turn_action == diff * TicksPerSecond
         IN [sent |-> TRUE, tick |-> tick, turn |-> turn_action, thrust |-> thrust]

----------------------------------------------------------------------------
(* src/hohman_client.py: main *)

NoReq == [seen |-> FALSE, coast |-> FALSE, v_rad |-> 0]

\* ev describes the message handled last: its type and tick, whether a
\* state_update held my_ship_id, whether choose_action raised, whether
\* ws.send raised, what choose_action returned, the command sent, and the
\* burn flags and request history as they were before the message.
NoEv == [kind |-> "none", tick |-> 0, matched |-> FALSE, raised |-> FALSE,
         send_failed |-> FALSE, burn |-> 0, thrust |-> 0, heading |-> 0,
         cmd |-> NoCmd, cache_changed |-> FALSE,
         pre_first |-> FALSE, pre_second |-> FALSE,
         pre_req |-> NoReq, pre_flipped |-> FALSE, pre_sign |-> 0]

\* hist: an exception was caught in the loop; the burns sent so far; the
\* snapshot of the last state_update that held my_ship_id; the radial
\* velocity seen by the last call of choose_action that returned with a
\* cached state (coast: it was made after the injection burn); whether two
\* consecutive such calls after the injection burn saw opposite signs; the
\* sign of the last non-zero radial velocity seen by a call after the
\* injection burn (0: none yet).
NoHist == [fault |-> FALSE, burns1 |-> 0, burns2 |-> 0, snapshot |-> NoState,
           req |-> NoReq, flipped |-> FALSE, sign |-> 0]

EvOf(kind) == [NoEv EXCEPT !.kind = kind, !.pre_first = first_burn_applied,
                           !.pre_second = second_burn_applied]

Cap(n) == IF n > 2 THEN 2 ELSE n

\* the sign of a radial velocity
sign_of(v) == IF v > 0 THEN 1 ELSE IF v < 0 THEN -1 ELSE 0

GInit ==
    /\ pc = "connect"
    /\ main_result = "running"
    /\ my_ship_id = "None"
    /\ cached_state = NoState
    /\ first_burn_applied = FALSE
    /\ second_burn_applied = FALSE
    /\ prev_v_rad = NoPrev
    /\ ev = NoEv
    /\ hist = NoHist

\* except Exception as e: print; break -- the loop ends and main returns
LoopBreak ==
    /\ pc' = "exit"
    /\ main_result' = "returned"

\* websockets.connect and the join_mode message are sent
Connect ==
    /\ pc = "connect"
    /\ pc' = "loop"
    /\ UNCHANGED <<svars, mvars, probe, main_result, my_ship_id, cached_state, first_burn_applied,
                   second_burn_applied, prev_v_rad, ev, hist>>

\* connecting or sending the join message raises: outside the try, main raises
ConnectFails ==
    /\ pc = "connect"
    /\ pc' = "exit"
    /\ main_result' = "raised"
    /\ UNCHANGED <<svars, mvars, probe, my_ship_id, cached_state, first_burn_applied,
                   second_burn_applied, prev_v_rad, ev, hist>>

\* ws.recv raises, json.loads raises, or a key the handler reads is missing
RecvFault ==
    /\ pc = "loop"
    /\ LoopBreak
    /\ ev' = EvOf("fault")
    /\ hist' = [hist EXCEPT !.fault = TRUE]
    /\ UNCHANGED <<svars, mvars, probe, my_ship_id, cached_state, first_burn_applied,
                   second_burn_applied, prev_v_rad>>

\* t == "mode_confirmed"; ship_id "absent": payload.get keeps the old id
RecvModeConfirmed(ship_id) ==
    /\ pc = "loop"
    /\ my_ship_id' = IF ship_id = "absent" THEN my_ship_id ELSE ship_id
    /\ ev' = EvOf("mode_confirmed")
    /\ UNCHANGED <<svars, mvars, probe, pc, main_result, cached_state, first_burn_applied,
                   second_burn_applied, prev_v_rad, hist>>

\* the snapshot built from ships[my_ship_id]
snapshot_of(tick, s) ==
    [valid |-> TRUE, tick |-> tick, x |-> s.pos[1], y |-> s.pos[2],
     vx |-> s.vel[1], vy |-> s.vel[2],
     heading |-> IF s.heading.has THEN s.heading.val ELSE 0]

\* if my_ship_id in msg_ships: cached_state = {...}; otherwise it is kept
updated_cache(id, tick, msg_ships, old) ==
    IF id \in DOMAIN msg_ships THEN snapshot_of(tick, msg_ships[id]) ELSE old

\* t == "state_update"; msg_ships maps the ids present to their states
RecvStateUpdate(tick, msg_ships) ==
    /\ pc = "loop"
    /\ LET matched == my_ship_id \in DOMAIN msg_ships
           snap == updated_cache(my_ship_id, tick, msg_ships, cached_state)
       IN /\ cached_state' = snap
          /\ ev' = [EvOf("state_update") EXCEPT !.tick = tick, !.matched = matched,
                                                !.cache_changed = (snap # cached_state)]
          /\ hist' = IF matched
                     THEN [hist EXCEPT !.snapshot = snapshot_of(tick, msg_ships[my_ship_id])]
                     ELSE hist
    /\ UNCHANGED <<svars, mvars, probe, pc, main_result, my_ship_id, first_burn_applied,
                   second_burn_applied, prev_v_rad>>

\* t == "action_request"; send_ok = FALSE: ws.send raises
RecvActionRequest(tick, send_ok) ==
    /\ pc = "loop"
    /\ LET ret == choose_action(cached_state, first_burn_applied,
                                second_burn_applied, prev_v_rad)
           msg == IF ret.raised THEN NoCmd
                  ELSE send_manual_control(cached_state, tick, ret.thrust, ret.heading)
           failed == msg.sent /\ ~send_ok
           cmd == IF failed THEN NoCmd ELSE msg
           coast == first_burn_applied
           answered == cached_state.valid /\ ~ret.raised
           flip == /\ answered /\ coast /\ hist.req.seen
                   /\ hist.req.v_rad * v_rad_of(cached_state) < 0
       IN /\ first_burn_applied' = ret.first
          /\ second_burn_applied' = ret.second
          /\ prev_v_rad' = ret.prev
          /\ ev' = [kind |-> "action_request", tick |-> tick, matched |-> FALSE,
                    raised |-> ret.raised, send_failed |-> failed,
                    burn |-> ret.burn, thrust |-> ret.thrust, heading |-> ret.heading,
                    cmd |-> cmd, cache_changed |-> FALSE,
                    pre_first |-> first_burn_applied,
                    pre_second |-> second_burn_applied, pre_req |-> hist.req,
                    pre_flipped |-> hist.flipped, pre_sign |-> hist.sign]
          /\ hist' = [hist EXCEPT
                        !.fault = @ \/ ret.raised \/ failed,
                        !.burns1 = IF cmd.sent /\ ret.burn = 1 THEN Cap(@ + 1) ELSE @,
                        !.burns2 = IF cmd.sent /\ ret.burn = 2 THEN Cap(@ + 1) ELSE @,
                        !.req = IF answered
                                THEN [seen |-> TRUE, coast |-> coast,
                                      v_rad |-> v_rad_of(cached_state)]
                                ELSE @,
                        !.flipped = @ \/ flip,
                        !.sign = IF answered /\ coast /\ v_rad_of(cached_state) # 0
                                 THEN sign_of(v_rad_of(cached_state))
                                 ELSE @]
          /\ IF ret.raised \/ failed
             THEN LoopBreak
             ELSE UNCHANGED <<pc, main_result>>
    /\ UNCHANGED <<svars, mvars, probe, my_ship_id, cached_state>>

\* a well-formed message of another type: no branch of the if/elif chain runs
RecvOther ==
    /\ pc = "loop"
    /\ ev' = EvOf("other")
    /\ UNCHANGED <<svars, mvars, probe, pc, main_result, my_ship_id, cached_state, first_burn_applied,
                   second_burn_applied, prev_v_rad, hist>>

TelemetryShips ==
    UNION {[present -> {[pos |-> p, vel |-> v, heading |-> h]}] :
             present \in SUBSET ShipIds, p \in TelemetryPositions,
             v \in TelemetryVelocities, h \in TelemetryHeadings}

GNext ==
    \/ Connect
    \/ ConnectFails
    \/ RecvFault
    \/ \E id \in ShipIds \cup {"absent"} : RecvModeConfirmed(id)
    \/ \E tick \in Ticks, msg_ships \in TelemetryShips : RecvStateUpdate(tick, msg_ships)
    \/ \E tick \in Ticks, send_ok \in BOOLEAN : RecvActionRequest(tick, send_ok)
    \/ RecvOther

----------------------------------------------------------------------------
(* src/environment.py: numbers of the engines *)

\* one grid unit of the engines is 1/2000
EScale == 2 * 1000

EGM == 1 * EScale
\* dt = 0.01: multiplying by dt divides by 100
DtDiv == 100
\* done beyond radius 5.0 and below radius 0.1
R_ESCAPE == 5 * EScale
R_COLLIDE == EScale \div 10
\* pairs closer than 1e-3 are skipped
OverlapEps == EScale \div 1000
\* the radius clamp 1e-5, on the grid
ERadiusEps == EScale \div 100000
\* pull of another ship: GM * 0.1
ShipPullDiv == 10

\* np.sqrt(GM / r0)
circular_speed(r0) == ISqrt(Quot(EGM * EScale, r0) * EScale)

\* np.random.uniform(0.2, 4.0)
RadiusSamples == {400, 500, 1000, 1500, 2000, 3000, 4000, 5000, 6000, 7000}

----------------------------------------------------------------------------
(* src/environment.py: OrbitalEnvironment *)

NoEnv == [made |-> FALSE, init_r |-> 0, enforce_r |-> FALSE,
          x |-> 0, y |-> 0, vx |-> 0, vy |-> 0, max_steps |-> 0, current_step |-> 0]

\* sev describes the last call of step: the object before the call, the
\* action given, and of what was returned the done flag and the scaled radius
\* error the reward was computed from
NoSev == [kind |-> "none", pre |-> NoEnv, action |-> 0, done |-> FALSE, scaled |-> 0]

\* reset(): sample is what np.random.uniform returns if it is called
reset(e, sample) ==
    LET x == IF e.enforce_r THEN e.init_r ELSE sample IN
    [e EXCEPT !.x = x, !.y = 0, !.vx = 0, !.vy = circular_speed(e.init_r),
              !.current_step = 0]

\* __init__(r0 = fixed) or __init__(r0 = None), reset() included
OE_Construct(has_r0, r0, sample1, sample2, max_steps) ==
    /\ ~env.made
    /\ LET init_r == IF has_r0 THEN r0 ELSE sample1
           e0 == [made |-> TRUE, init_r |-> init_r, enforce_r |-> has_r0,
                  x |-> init_r, y |-> 0, vx |-> 0, vy |-> circular_speed(init_r),
                  max_steps |-> max_steps, current_step |-> 0]
       IN env' = reset(e0, sample2)
    /\ sev' = NoSev
    /\ UNCHANGED <<gvars, mvars, probe>>

OE_Reset(sample) ==
    /\ env.made
    /\ env' = reset(env, sample)
    /\ sev' = NoSev
    /\ UNCHANGED <<gvars, mvars, probe>>

EInit ==
    /\ env = NoEnv
    /\ sev = NoSev

----------------------------------------------------------------------------
(* src/environment.py: MultiShipOrbitalEnvironment *)

MaxSteps == 3
MaxLoggedSteps == 2

EngineIds == {"a", "b"}

\* add_ship: r0 as given, or np.random.uniform(0.2, 4.0) when it is None
placed_radius(has_r0, r0, sample) == IF has_r0 THEN r0 ELSE sample

\* add_ship: the record stored for radius r0
new_ship(ship_id, r0, control_type) ==
    [id |-> ship_id, x |-> r0, y |-> 0, vx |-> 0, vy |-> circular_speed(r0),
     init_r |-> r0, done |-> FALSE, control_type |-> control_type,
     heading |-> 0, thrust |-> 0, turn_rate |-> 0, steps |-> 0,
     tangential_thrust |-> 0]

Ids(ss) == {ss[i].id : i \in 1..Len(ss)}

\* self.ships[ship_id] = {...}: a present key keeps its place
dict_set(ss, rec) ==
    IF rec.id \in Ids(ss)
    THEN [i \in 1..Len(ss) |-> IF ss[i].id = rec.id THEN rec ELSE ss[i]]
    ELSE Append(ss, rec)

\* del self.ships[ship_id]
dict_del(ss, ship_id) == SelectSeq(ss, LAMBDA s : s.id # ship_id)

\* cos and sin of a heading counted in eighths of a turn, rounded toward zero
Diag == ISqrt(Quot(EScale * EScale, 2))
Cos8(h) ==
    LET k == h % 8 IN
    IF k = 0 THEN EScale ELSE IF k = 1 THEN Diag ELSE IF k = 2 THEN 0
    ELSE IF k = 3 THEN -Diag ELSE IF k = 4 THEN -EScale ELSE IF k = 5 THEN -Diag
    ELSE IF k = 6 THEN 0 ELSE Diag
Sin8(h) == Cos8(h - 2)

\* _apply_ai_control
apply_ai_control(ship, action) == [ship EXCEPT !.tangential_thrust = action]

\* _apply_manual_control: turn counts eighths of a turn per step, so
\* heading += turn_rate * dt adds it
apply_manual_control(ship, action) ==
    [ship EXCEPT !.turn_rate = action.turn,
                 !.heading = @ + action.turn,
                 !.thrust = action.thrust]

VAdd(u, v) == <<u[1] + v[1], u[2] + v[2]>>

\* the pull with only a ship at the very point passed over
pair_pull_unclamped(x, y, ox, oy) ==
    LET dx == ox - x
        dy == oy - y
        odist == ISqrt(dx * dx + dy * dy)
    IN IF dx * dx + dy * dy = 0 THEN <<0, 0>>
       ELSE LET o_rhat == <<Quot(dx * EScale, odist), Quot(dy * EScale, odist)>>
                g == Quot(EGM, ShipPullDiv)
            IN <<Quot(g * o_rhat[1] * EScale, odist * odist),
                 Quot(g * o_rhat[2] * EScale, odist * odist)>>

\* the pull of the ship at (ox, oy) on the point (x, y)
pair_pull(x, y, ox, oy) ==
    LET dx == ox - x
        dy == oy - y
        odist == ISqrt(dx * dx + dy * dy)
    IN IF dx * dx + dy * dy < OverlapEps * OverlapEps THEN <<0, 0>>
       ELSE LET o_rhat == <<Quot(dx * EScale, odist), Quot(dy * EScale, odist)>>
                g == Quot(EGM, ShipPullDiv)
            IN <<Quot(g * o_rhat[1] * EScale, odist * odist),
                 Quot(g * o_rhat[2] * EScale, odist * odist)>>

RECURSIVE pulls(_, _, _, _, _)
pulls(x, y, ship_id, positions, i) ==
    IF i > Len(positions) THEN <<0, 0>>
    ELSE LET rest == pulls(x, y, ship_id, positions, i + 1) IN
         IF positions[i].id = ship_id THEN rest
         ELSE VAdd(pair_pull(x, y, positions[i].x, positions[i].y), rest)

\* -GM / dist**2 * rhat with dist = max(dist, 1e-5)
central_gravity(x, y) ==
    LET dist == ISqrt(x * x + y * y) IN
    IF dist <= ERadiusEps THEN <<0, 0>>
    ELSE LET rhat == <<Quot(x * EScale, dist), Quot(y * EScale, dist)>>
         IN <<-Quot(Quot(EGM * rhat[1], dist) * EScale, dist),
              -Quot(Quot(EGM * rhat[2], dist) * EScale, dist)>>

\* _compute_acc
compute_acc(x, y, ship_id, positions) ==
    VAdd(central_gravity(x, y), pulls(x, y, ship_id, positions, 1))

\* the thrust vector of _apply_physics
thrust_vector(ship) ==
    IF ship.control_type = "ai" THEN
        LET dist == ISqrt(ship.x * ship.x + ship.y * ship.y) IN
        IF dist > ERadiusEps
        THEN LET rhat == <<Quot(ship.x * EScale, dist), Quot(ship.y * EScale, dist)>>
             IN <<Quot(-rhat[2] * ship.tangential_thrust, EScale),
                  Quot(rhat[1] * ship.tangential_thrust, EScale)>>
        ELSE <<0, 0>>
    ELSE IF ship.control_type = "manual" /\ ship.thrust > 0
         THEN <<Quot(Cos8(ship.heading) * ship.thrust, EScale),
                Quot(Sin8(ship.heading) * ship.thrust, EScale)>>
         ELSE <<0, 0>>

Dt(v) == <<Quot(v[1], DtDiv), Quot(v[2], DtDiv)>>
Half(v) == <<Quot(v[1], 2), Quot(v[2], 2)>>
Weighted(k1, k2, k3, k4) ==
    <<Quot(k1[1] + 2 * k2[1] + 2 * k3[1] + k4[1], 6),
      Quot(k1[2] + 2 * k2[2] + 2 * k3[2] + k4[2], 6)>>

\* _apply_physics
apply_physics(ship, positions, ship_id) ==
    LET p == <<ship.x, ship.y>>
        v == <<ship.vx, ship.vy>>
        thrust_acc == thrust_vector(ship)
        a1 == VAdd(compute_acc(p[1], p[2], ship_id, positions), thrust_acc)
        k1_v == Dt(a1)
        k1_p == Dt(v)
        mid1 == VAdd(p, Half(k1_p))
        a2 == VAdd(compute_acc(mid1[1], mid1[2], ship_id, positions), thrust_acc)
        k2_v == Dt(a2)
        k2_p == Dt(VAdd(v, Half(k1_v)))
        mid2 == VAdd(p, Half(k2_p))
        a3 == VAdd(compute_acc(mid2[1], mid2[2], ship_id, positions), thrust_acc)
        k3_v == Dt(a3)
        k3_p == Dt(VAdd(v, Half(k2_v)))
        end == VAdd(p, k3_p)
        a4 == VAdd(compute_acc(end[1], end[2], ship_id, positions), thrust_acc)
        k4_v == Dt(a4)
        k4_p == Dt(VAdd(v, k3_v))
        nv == VAdd(v, Weighted(k1_v, k2_v, k3_v, k4_v))
        np == VAdd(p, Weighted(k1_p, k2_p, k3_p, k4_p))
    IN [ship EXCEPT !.x = np[1], !.y = np[2], !.vx = nv[1], !.vy = nv[2]]

\* the bounds taken as part of the outside: dist >= 5.0 or dist <= 0.1
leaves_band_inclusive(x, y) ==
    \/ x * x + y * y >= R_ESCAPE * R_ESCAPE
    \/ x * x + y * y <= R_COLLIDE * R_COLLIDE

\* dist > 5.0 or dist < 0.1
leaves_band(x, y) ==
    \/ x * x + y * y > R_ESCAPE * R_ESCAPE
    \/ x * x + y * y < R_COLLIDE * R_COLLIDE

\* the defaults of actions.get: 0.0 and {'turn': 0.0, 'thrust': 0.0}
NoAction == [ai |-> 0, manual |-> [turn |-> 0, thrust |-> 0]]

\* a ship without an entry is given the entry of some other id of the map
action_for_any(actions, ship_id, default) ==
    IF ship_id \in DOMAIN actions THEN actions[ship_id]
    ELSE IF DOMAIN actions # {} THEN actions[CHOOSE k \in DOMAIN actions : TRUE]
    ELSE default

\* actions.get(ship_id, default)
action_for(actions, ship_id, default) ==
    IF ship_id \in DOMAIN actions THEN actions[ship_id] ELSE default

\* no ship is passed over
skipped_never(ship) == FALSE

\* if ship['done']: continue
skipped(ship) == ship.done

\* the body of the loop of step for one ship
step_ship(ship, actions, positions) ==
    IF skipped(ship) THEN ship
    ELSE
    LET s1 == [ship EXCEPT !.steps = @ + 1]
        s2 == IF ship.control_type = "ai"
              THEN apply_ai_control(s1, action_for(actions, ship.id, NoAction).ai)
              ELSE IF ship.control_type = "manual"
              THEN apply_manual_control(s1, action_for(actions, ship.id, NoAction).manual)
              ELSE s1
        s3 == apply_physics(s2, positions, ship.id)
    IN [s3 EXCEPT !.done = leaves_band(s3.x, s3.y)]

\* positions = {sid: (x, y) for the ships not done}
snapshot_positions(ss) ==
    LET live == SelectSeq(ss, LAMBDA s : ~s.done) IN
    [i \in 1..Len(live) |-> [id |-> live[i].id, x |-> live[i].x, y |-> live[i].y]]

\* the positions of the ships as the loop has left them so far
positions_live(ss, positions) == snapshot_positions(ss)

\* the positions handed to _apply_physics while the loop runs: the dict built
\* before the loop, whatever the ships have become since
positions_seen(ss, positions) == positions

\* for ship_id, ship in self.ships.items(): ships are updated in place, in
\* insertion order
RECURSIVE step_loop(_, _, _, _)
step_loop(ss, actions, positions, i) ==
    IF i > Len(ss) THEN ss
    ELSE step_loop([ss EXCEPT ![i] = step_ship(ss[i], actions, positions_seen(ss, positions))],
                   actions, positions, i + 1)

\* the loop, followed by the deletion of the ships that are done
step_dropping_done(ss, actions) ==
    SelectSeq(step_loop(ss, actions, snapshot_positions(ss), 1), LAMBDA s : ~s.done)

\* step: positions are gathered once, then the loop runs
step(ss, actions) == step_loop(ss, actions, snapshot_positions(ss), 1)

\* get_states: a copy of every record of the registry
get_states(ss) == [i \in 1..Len(ss) |-> ss[i]]

\* the radii given to add_ship: the inner bound, just outside it, and the
\* outer bound
AddRadii == {R_COLLIDE, R_COLLIDE + 1, R_ESCAPE}

\* what np.random.uniform(0.2, 4.0) returns in add_ship: the unit orbit
AddSamples == {EScale}
\* the control types the callers give: ship "a" is flown by a policy, ship "b"
\* by a player
ControlTypesOf(ship_id) == IF ship_id = "a" THEN {"ai"} ELSE {"manual"}
\* an entry of the action map, as a ship of either control type reads it
ActionEntries == {NoAction, [ai |-> EScale, manual |-> [turn |-> 1, thrust |-> EScale]]}

\* the action maps given to step: per id, an entry or none
ActionMaps == UNION {[d -> ActionEntries] : d \in SUBSET EngineIds}

\* mev describes the last call of step when it is logged: the registry before
\* the call and the action map given
NoMev == [kind |-> "none", pre |-> <<>>, actions |-> <<>>]

MInit ==
    /\ ships = <<>>
    /\ current_step = 0
    /\ mev = NoMev

AddShip(ship_id, has_r0, r0, sample, control_type) ==
    /\ ships' = dict_set(ships, new_ship(ship_id, placed_radius(has_r0, r0, sample),
                                         control_type))
    /\ mev' = NoMev
    /\ UNCHANGED <<gvars, svars, probe, current_step>>

RemoveShip(ship_id) ==
    /\ ships' = dict_del(ships, ship_id)
    /\ mev' = NoMev
    /\ UNCHANGED <<gvars, svars, probe, current_step>>

MReset ==
    /\ ships' = <<>>
    /\ current_step' = 0
    /\ mev' = NoMev
    /\ UNCHANGED <<gvars, svars, probe>>

\* step(actions); logged: the call is recorded in mev, and fewer calls are made
Step(actions, logged) ==
    /\ current_step < (IF logged THEN MaxLoggedSteps ELSE MaxSteps)
    /\ ships' = step(ships, actions)
    /\ current_step' = current_step + 1
    /\ mev' = IF logged THEN [kind |-> "step", pre |-> ships, actions |-> actions]
               ELSE NoMev
    /\ UNCHANGED <<gvars, svars, probe>>

MNext ==
    \/ \E id \in EngineIds : \E r0 \in AddRadii, c \in ControlTypesOf(id) :
          AddShip(id, TRUE, r0, r0, c)
    \/ \E id \in EngineIds : \E sample \in AddSamples, c \in ControlTypesOf(id) :
          AddShip(id, FALSE, sample, sample, c)
    \/ \E id \in EngineIds : RemoveShip(id)
    \/ MReset
    \/ \E actions \in ActionMaps : Step(actions, FALSE)

\* the multi-body engine with its steps logged
MLoggedNext ==
    \/ \E id \in EngineIds : \E r0 \in AddRadii, c \in ControlTypesOf(id) :
          AddShip(id, TRUE, r0, r0, c)
    \/ \E id \in EngineIds : \E sample \in AddSamples, c \in ControlTypesOf(id) :
          AddShip(id, FALSE, sample, sample, c)
    \/ \E id \in EngineIds : RemoveShip(id)
    \/ MReset
    \/ \E actions \in ActionMaps : Step(actions, TRUE)

----------------------------------------------------------------------------
(* src/environment.py: OrbitalEnvironment.step *)

\* the values of max_steps the integrator is constructed with
MaxEpisode == 2
EpisodeLengths == 1..MaxEpisode

\* the radii given as r0: the samples and the two bounds of the band
FixedRadii == RadiusSamples \cup {R_COLLIDE, R_ESCAPE}

\* the thrust values given to step
SingleActions == {0, EScale}

\* acceleration(state): dist = np.clip(dist, 1e-5, 5.0)
acceleration(x, y) ==
    LET d == ISqrt(x * x + y * y)
        dist == IF d > R_ESCAPE THEN R_ESCAPE ELSE d
    IN IF dist <= ERadiusEps THEN <<0, 0>>
       ELSE LET rhat == <<Quot(x * EScale, dist), Quot(y * EScale, dist)>>
            IN <<-Quot(Quot(EGM * rhat[1], dist) * EScale, dist),
                 -Quot(Quot(EGM * rhat[2], dist) * EScale, dist)>>

\* the state with the thrust of the action already added to the velocity
integrated_state_thrust_first(e, action) ==
    LET dv == Dt(<<0, action>>) IN <<e.x, e.y, e.vx + dv[1], e.vy + dv[2]>>

\* the state the integration starts from: the object's, the action not in it
integrated_state(e, action) == <<e.x, e.y, e.vx, e.vy>>

\* the RK4 stages and the weighted update of step
rk4(state) ==
    LET p == <<state[1], state[2]>>
        v == <<state[3], state[4]>>
        k1_v == Dt(acceleration(p[1], p[2]))
        k1_p == Dt(v)
        mid1 == VAdd(p, Half(k1_p))
        k2_v == Dt(acceleration(mid1[1], mid1[2]))
        k2_p == Dt(VAdd(v, Half(k1_v)))
        mid2 == VAdd(p, Half(k2_p))
        k3_v == Dt(acceleration(mid2[1], mid2[2]))
        k3_p == Dt(VAdd(v, Half(k2_v)))
        end == VAdd(p, k3_p)
        k4_v == Dt(acceleration(end[1], end[2]))
        k4_p == Dt(VAdd(v, k3_v))
        nv == VAdd(v, Weighted(k1_v, k2_v, k3_v, k4_v))
        np == VAdd(p, Weighted(k1_p, k2_p, k3_p, k4_p))
    IN <<np[1], np[2], nv[1], nv[2]>>

\* rotation_matrix @ [0, action] at the position (x, y), times dt
thrust_impulse(x, y, action) ==
    LET dist == ISqrt(x * x + y * y) IN
    IF dist <= ERadiusEps THEN <<0, 0>>
    ELSE LET rhat == <<Quot(x * EScale, dist), Quot(y * EScale, dist)>>
         IN Dt(<<Quot(-rhat[2] * action, EScale), Quot(rhat[1] * action, EScale)>>)

\* np.clip(v, lo, hi)
Clip(v, lo, hi) == IF v < lo THEN lo ELSE IF v > hi THEN hi ELSE v

\* default_reward: the scaled radius error
scaled_r_err(x, y, init_r) ==
    LET r == ISqrt(x * x + y * y)
        r_err == r - EScale
        r_max_err == IF Abs(init_r - EScale) > EScale \div 100
                     THEN Abs(init_r - EScale) ELSE EScale \div 100
    IN Clip(Quot(r_err * EScale, r_max_err) * 2, -2 * EScale, 2 * EScale)

\* the step count compared with max_steps: current_step before it is increased
counted_steps(e) == e.current_step

\* step after the integration has given st: the thrust, the reward, the done
\* flag and the step count
finish_step(e, action, st) ==
    LET dv == thrust_impulse(st[1], st[2], action)
        done == leaves_band(st[1], st[2]) \/ counted_steps(e) >= e.max_steps
    IN [env |-> [e EXCEPT !.x = st[1], !.y = st[2],
                          !.vx = st[3] + dv[1], !.vy = st[4] + dv[2],
                          !.current_step = @ + 1],
        done |-> done,
        scaled |-> scaled_r_err(st[1], st[2], e.init_r)]

\* step(action): the object after the call, and what the call returns
oe_step(e, action) ==
    CHOOSE ret \in {finish_step(e, action, st) : st \in {rk4(integrated_state(e, action))}} :
        TRUE

\* step is called; one call beyond max_steps is followed
OE_Step(action) ==
    /\ env.made
    /\ env.current_step <= env.max_steps
    /\ LET ret == oe_step(env, action) IN
          /\ env' = ret.env
          /\ sev' = [kind |-> "step", pre |-> env, action |-> action,
                     done |-> ret.done, scaled |-> ret.scaled]
    /\ UNCHANGED <<gvars, mvars, probe>>

SNext ==
    \/ \E r0 \in FixedRadii, n \in EpisodeLengths : OE_Construct(TRUE, r0, r0, r0, n)
    \/ \E s1 \in RadiusSamples, s2 \in RadiusSamples, n \in EpisodeLengths :
          OE_Construct(FALSE, s1, s1, s2, n)
    \/ \E s \in RadiusSamples : OE_Reset(s)
    \/ \E action \in SingleActions : OE_Step(action)

----------------------------------------------------------------------------
(* src/environment.py: the acceleration functions, evaluated on their own *)

\* the points the accelerations are evaluated at: the centre, the unit orbit,
\* points 5e-4 and 1.5e-3 beside it, the outer bound and points beyond it
ProbePoints ==
    {<<0, 0>>, <<EScale, 0>>, <<0, EScale>>, <<EScale + 1, 0>>, <<EScale + 3, 0>>,
     <<3 * EScale, 4 * EScale>>, <<6 * EScale, 0>>, <<0, -6 * EScale>>,
     <<(18 * EScale) \div 5, (24 * EScale) \div 5>>}

\* where the ships of a snapshot are
SnapshotPoints == {<<EScale, 0>>, <<EScale + 1, 0>>, <<EScale + 3, 0>>, <<0, EScale>>}

\* the snapshots: per id, a position or no entry, in insertion order
Snapshots ==
    {<<>>}
    \cup {<<[id |-> k, x |-> p[1], y |-> p[2]]>> : k \in EngineIds, p \in SnapshotPoints}
    \cup {<<[id |-> "a", x |-> p[1], y |-> p[2]], [id |-> "b", x |-> q[1], y |-> q[2]]>> :
            p \in SnapshotPoints, q \in SnapshotPoints}

NoProbe == [evaluated |-> FALSE, x |-> 0, y |-> 0, ship_id |-> "a", positions |-> <<>>,
            multi |-> <<0, 0>>, single |-> <<0, 0>>]

PInit == probe = NoProbe

\* _compute_acc(x, y, ship_id, positions) and acceleration([x, y, ..]) are called
EvalAcc(x, y, ship_id, positions) ==
    /\ probe' = [evaluated |-> TRUE, x |-> x, y |-> y, ship_id |-> ship_id,
                 positions |-> positions,
                 multi |-> compute_acc(x, y, ship_id, positions),
                 single |-> acceleration(x, y)]
    /\ UNCHANGED <<gvars, svars, mvars>>

PNext ==
    \E p \in ProbePoints, ship_id \in EngineIds, positions \in Snapshots :
        EvalAcc(p[1], p[2], ship_id, positions)

----------------------------------------------------------------------------
(* Specifications *)

Init == GInit /\ EInit /\ MInit /\ PInit

\* the guidance client
Next == GNext
Spec == Init /\ [][Next]_vars

\* the single-body integrator
SpecSingle == Init /\ [][SNext]_vars

\* the multi-body engine
SpecMulti == Init /\ [][MNext]_vars

\* the multi-body engine, each step logged
SpecMultiLogged == Init /\ [][MLoggedNext]_vars

\* the acceleration functions
SpecAcc == Init /\ [][PNext]_vars

----------------------------------------------------------------------------
(* Claims about the guidance client, checked under Spec *)

\* the last message was an action request that reached ws.send without the
\* transport failing
Requested == ev.kind = "action_request" /\ ~ev.send_failed

\* the radial velocities seen at the previous call and at this one have
\* opposite signs
SignFlip == ev.pre_req.seen /\ ev.pre_req.v_rad * v_rad_of(cached_state) < 0

\* C1: every action_request carrying tick T, in any interleaving with
\* mode_confirmed and state_update messages, also before any telemetry is
\* cached, is answered by exactly one command, and that command carries T.
C1_OneCommandPerRequest ==
    Requested => (ev.cmd.sent /\ ev.cmd.tick = ev.tick)

\* C2 as stated: after the injection burn, the circularization burn
\* (non-zero thrust, second_burn_applied set) answers request k+1 exactly
\* when the radial velocities seen at requests k and k+1 have opposite signs
\* and no earlier pair had, request k being the injection-burn request or a
\* coast request.
C2_BurnAtFirstSignFlip ==
    (Requested /\ cached_state.valid /\ ev.pre_first /\ ~ev.raised) =>
        ((ev.burn = 2 /\ ev.cmd.sent /\ ev.cmd.thrust > 0 /\ second_burn_applied)
            <=> (SignFlip /\ ~ev.pre_flipped))

\* C2 amended: the circularization burn answers a coast request exactly when
\* the previous request was answered after the injection burn too, the
\* radial velocities seen at the two requests have strictly opposite signs,
\* the radius now is within 0.1 of the target radius, and no circularization
\* burn was emitted before; it has non-zero thrust, sets second_burn_applied
\* and is emitted at most once.
C2_BurnAtGatedSignFlip ==
    /\ (Requested /\ cached_state.valid /\ ev.pre_first /\ ~ev.raised) =>
          /\ (ev.burn = 2) <=> /\ SignFlip
                               /\ ev.pre_req.coast
                               /\ near_target_of(cached_state)
                               /\ ~ev.pre_second
          /\ (ev.burn = 2) => /\ ev.cmd.sent
                              /\ ev.cmd.thrust > 0
                              /\ second_burn_applied
    /\ (ev.kind = "action_request" /\ ~ev.pre_first) => ev.burn # 2
    /\ hist.burns2 <= 1

\* C2 witness: a circularization burn was just sent
C2_BurnTwoSent == Requested /\ ev.burn = 2 /\ ev.cmd.sent /\ hist.burns2 = 1

\* C3: the injection burn is emitted exactly once per session: the first
\* choose_action call with a non-empty cache returns the burn-1 command and
\* sets first_burn_applied, no later call emits it again or clears the flag,
\* and calls with an empty cache emit no burn and leave both flags false.
C3_InjectionBurnOnce ==
    /\ (Requested /\ cached_state.valid /\ ~ev.pre_first) =>
          (ev.burn = 1 /\ ev.cmd.sent /\ first_burn_applied)
    /\ (ev.kind = "action_request" /\ ev.pre_first) =>
          (ev.burn # 1 /\ first_burn_applied)
    /\ hist.burns1 <= 1
    /\ ~cached_state.valid =>
          (~first_burn_applied /\ ~second_burn_applied /\ ev.burn = 0
           /\ hist.burns1 = 0 /\ hist.burns2 = 0)

\* C4: CoastFinal is absorbing: once second_burn_applied is true, every later
\* choose_action call, for any telemetry, returns thrust 0 with heading
\* atan2(vy, vx) of the cached state; a session emits at most one
\* circularization burn and never before the injection burn.
C4_CoastFinalAbsorbing ==
    /\ (ev.kind = "action_request" /\ ev.pre_second) =>
          /\ ~ev.raised
          /\ ev.thrust = 0
          /\ ev.heading = Atan2(cached_state.vy, cached_state.vx)
          /\ second_burn_applied
    /\ hist.burns2 <= 1
    /\ hist.burns2 >= 1 => hist.burns1 >= 1

\* C5: the cache is last-known-value: the cached snapshot is that of the
\* most recent state_update that held the session's vehicle id; a
\* state_update without that id leaves the snapshot and the burn flags
\* unchanged and is not an error; every action request made with a cached
\* snapshot is answered from it and leaves it in place.
C5_LastKnownValue ==
    /\ cached_state = hist.snapshot
    /\ (ev.kind = "state_update" /\ ~ev.matched) =>
          /\ ~ev.cache_changed
          /\ first_burn_applied = ev.pre_first
          /\ second_burn_applied = ev.pre_second
          /\ pc = "loop"
    /\ (Requested /\ cached_state.valid) =>
          /\ ~ev.cache_changed
          /\ ev.cmd.sent
          /\ ev.cmd = send_manual_control(hist.snapshot, ev.tick, ev.thrust, ev.heading)

\* C6: when a message is malformed or the transport fails inside the loop,
\* the loop ends and the fault reaches the caller of main as an error, not
\* as a normal return.
C6_FaultSurfaced ==
    hist.fault => (pc = "exit" /\ main_result = "raised")

\* C7: a well-formed message of a type the loop does not expect ends the
\* loop.
C7_UnexpectedTypeFatal ==
    ev.kind = "other" => pc = "exit"

\* C8: choose_action never raises, whatever the cached telemetry (radius 0
\* included) and whatever the tick (the ticks of the orbital-elements log
\* included), so telemetry never ends the loop.
C8_ChooseActionNeverRaises ==
    ev.kind = "action_request" => (~ev.raised /\ (~ev.send_failed => pc = "loop"))

\* the squared radius of a ship
R2(s) == s.x * s.x + s.y * s.y

\* C9: every vehicle starts on the circular orbit of the radius it is placed
\* at: after the single-body integrator is constructed or reset, and after
\* add_ship, the state is (r0, 0, 0, sqrt(GM / r0)) for the radius r0 of the
\* position, and the recorded initial radius is that r0.
C9_CircularStart ==
    /\ (env.made /\ env.current_step = 0) =>
          /\ env.y = 0
          /\ env.vx = 0
          /\ env.vy = circular_speed(env.x)
          /\ env.init_r = env.x
    /\ \A i \in 1..Len(ships) : ships[i].steps = 0 =>
          /\ ships[i].y = 0
          /\ ships[i].vx = 0
          /\ ships[i].vy = circular_speed(ships[i].x)
          /\ ships[i].init_r = ships[i].x

Stepped == mev.kind = "step"

\* C11: once a ship of the multi-body engine is done, a later step leaves its
\* whole record as it was, whatever the action map holds for its id: position,
\* velocity, heading, thrust fields and step count.
C11_DoneShipsFrozen ==
    Stepped =>
        /\ Len(ships) = Len(mev.pre)
        /\ \A i \in 1..Len(mev.pre) : mev.pre[i].done => ships[i] = mev.pre[i]

\* a step was made over a ship already done, with a thrust command for its id
C11_DoneShipCommanded ==
    /\ Stepped
    /\ \E i \in 1..Len(mev.pre) :
          /\ mev.pre[i].done
          /\ mev.pre[i].id \in DOMAIN mev.actions
          /\ mev.actions[mev.pre[i].id] # NoAction
          /\ ships[i].done

\* C12: step never adds or removes registry entries: the ids of the registry
\* and of get_states are, in order, those before the step; a ship that was
\* done stays done, and a ship that leaves the band in the step is marked done
\* and kept.
C12_DoneKeptInRegistry ==
    Stepped =>
        /\ [i \in 1..Len(ships) |-> ships[i].id]
              = [i \in 1..Len(mev.pre) |-> mev.pre[i].id]
        /\ Ids(get_states(ships)) = Ids(mev.pre)
        /\ \A i \in 1..Len(mev.pre) : mev.pre[i].done => ships[i].done
        /\ \A i \in 1..Len(ships) :
              (ships[i].steps > 0 /\ leaves_band(ships[i].x, ships[i].y)) => ships[i].done

\* a step that kept a ship done before it and a ship it marked done
C12_OldAndNewDoneKept ==
    /\ Stepped
    /\ \E i \in 1..Len(mev.pre), j \in 1..Len(mev.pre) :
          /\ mev.pre[i].done
          /\ ships[i].done
          /\ ~mev.pre[j].done
          /\ ships[j].done
          /\ ships[j].id \in Ids(get_states(ships))

\* the last operation of the single-body integrator was a call of step
SingleStepped == sev.kind = "step"

\* C13: the single-body step reports done exactly when the radius after the
\* step is above 5.0 or below 0.1, or the number of step calls completed since
\* the last reset, the current one included, has reached max_steps; so an
\* episode that stays inside the band first reports done on call number
\* max_steps.
C13_DoneAtMaxSteps ==
    SingleStepped =>
        (sev.done <=> \/ R2(env) > R_ESCAPE * R_ESCAPE
                      \/ R2(env) < R_COLLIDE * R_COLLIDE
                      \/ env.current_step >= env.max_steps)

\* a sequence back to front
Reverse(ss) == [i \in 1..Len(ss) |-> ss[Len(ss) + 1 - i]]

\* the action map cut down to the entry of one id
OwnAction(actions, ship_id) == [k \in DOMAIN actions \cap {ship_id} |-> actions[k]]

\* C14: the multi-body step works on one frozen snapshot: the record of each
\* ship not done before the step is, after it, what the loop body makes of
\* the ship's own record before the step, its own command, and the positions
\* before the step of the ships not done then; and taking the ships in the
\* opposite order gives every ship the same record.
C14_FrozenSnapshot ==
    Stepped =>
        /\ \A i \in 1..Len(mev.pre) : ~mev.pre[i].done =>
              ships[i] = step_ship(mev.pre[i], OwnAction(mev.actions, mev.pre[i].id),
                                   snapshot_positions(mev.pre))
        /\ step(Reverse(mev.pre), mev.actions) = Reverse(ships)

\* a step over two ships, neither done before it, that pull on each other; the
\* first of them moved
C14_TwoShipsStepped ==
    /\ Stepped
    /\ Len(mev.pre) = 2
    /\ ~mev.pre[1].done
    /\ ~mev.pre[2].done
    /\ pair_pull(mev.pre[2].x, mev.pre[2].y, mev.pre[1].x, mev.pre[1].y) # <<0, 0>>
    /\ <<ships[1].x, ships[1].y>> # <<mev.pre[1].x, mev.pre[1].y>>
    /\ ships[2].steps = mev.pre[2].steps + 1

\* the action map cut down to the ids of a registry
KnownActions(actions, ss) == [k \in DOMAIN actions \cap Ids(ss) |-> actions[k]]

\* C15: ids of the action map that are not in the registry are passed over in
\* silence: the step makes no entry for them, and every ship of the registry
\* is updated as by the same step with those ids taken out of the map.
C15_UnknownIdsIgnored ==
    Stepped =>
        /\ Ids(ships) = Ids(mev.pre)
        /\ ships = step(mev.pre, KnownActions(mev.actions, mev.pre))

\* a step whose map had a thrust command for an id not in the registry, over
\* a ship that had no entry and moved
C15_UnknownIdCommanded ==
    /\ Stepped
    /\ \E k \in DOMAIN mev.actions \ Ids(mev.pre) : mev.actions[k] # NoAction
    /\ \E i \in 1..Len(mev.pre) :
          /\ mev.pre[i].id \notin DOMAIN mev.actions
          /\ ships[i].steps = mev.pre[i].steps + 1
          /\ <<ships[i].x, ships[i].y>> # <<mev.pre[i].x, mev.pre[i].y>>

\* the squared distance of a snapshot entry from the point evaluated
ProbeD2(o) == (o.x - probe.x) * (o.x - probe.x) + (o.y - probe.y) * (o.y - probe.y)

\* the entries of the snapshot that are another ship's, 1e-3 or more away
FarOthers ==
    SelectSeq(probe.positions,
              LAMBDA o : o.id # probe.ship_id /\ ProbeD2(o) >= OverlapEps * OverlapEps)

\* C16: a snapshot ship closer than 1e-3 to the point evaluated adds nothing to
\* the acceleration, and neither does the entry of the ship itself: the result
\* is central gravity plus the pulls of the other entries alone, and central
\* gravity alone when no other entry is left.
C16_CloseAndSelfAddNothing ==
    probe.evaluated =>
        /\ probe.multi = compute_acc(probe.x, probe.y, probe.ship_id, FarOthers)
        /\ FarOthers = <<>> => probe.multi = central_gravity(probe.x, probe.y)

\* an evaluation 5e-4 from another ship of the snapshot, with the ship's own
\* entry elsewhere in the snapshot
C16_HalfMillimetreApart ==
    /\ probe.evaluated
    /\ Len(probe.positions) = 2
    /\ \E i \in 1..2 :
          /\ probe.positions[i].id # probe.ship_id
          /\ ProbeD2(probe.positions[i]) = 1
    /\ \E i \in 1..2 :
          /\ probe.positions[i].id = probe.ship_id
          /\ ProbeD2(probe.positions[i]) >= OverlapEps * OverlapEps

\* C18: with no other ship in the snapshot, the multi-body acceleration is the
\* single-body acceleration at every position, those beyond radius 5.0 and
\* the centre included.
C18_SameCentralGravity ==
    (probe.evaluated /\ probe.positions = <<>>) => probe.multi = probe.single

\* the unit tangent at (x, y): the radial direction turned by a quarter turn
Tangent(x, y) ==
    LET r == ISqrt(x * x + y * y) IN
    IF r = 0 THEN <<0, 0>> ELSE <<-Quot(y * EScale, r), Quot(x * EScale, r)>>

\* C17: in the single-body step the thrust is an impulse on the velocity after
\* the integration: the same step from the same state with any other action
\* gives the same position and the same done flag, and a velocity that
\* differs by dt times the difference of the actions along the tangent at the
\* position after the integration.
C17_ThrustAfterIntegration ==
    SingleStepped =>
        \A a2 \in SingleActions :
            LET alt == oe_step(sev.pre, a2)
                t == Tangent(env.x, env.y)
                da == a2 - sev.action
            IN /\ alt.env.x = env.x
               /\ alt.env.y = env.y
               /\ alt.done = sev.done
               /\ alt.env.vx - env.vx = Quot(Quot(t[1] * da, EScale), DtDiv)
               /\ alt.env.vy - env.vy = Quot(Quot(t[2] * da, EScale), DtDiv)

\* a step with thrust whose velocity is not that of the step without thrust
C17_ThrustChangedVelocity ==
    /\ SingleStepped
    /\ sev.action # 0
    /\ <<env.vx, env.vy>> # <<oe_step(sev.pre, 0).env.vx, oe_step(sev.pre, 0).env.vy>>
    /\ <<env.x, env.y>> # <<sev.pre.x, sev.pre.y>>

\* C19: the default reward of the single-body step is computed from the
\* scaled radius error clip((r - 1.0) / max(|r0 - 1|, 1e-2), -2, 2), with r the
\* radius after the step and r0 the initial radius, and no further factor.
C19_ScaledErrorUnscaled ==
    SingleStepped =>
        LET r_err == ISqrt(R2(env)) - EScale
            r_max_err == IF Abs(env.init_r - EScale) > EScale \div 100
                         THEN Abs(env.init_r - EScale) ELSE EScale \div 100
        IN sev.scaled = Clip(Quot(r_err * EScale, r_max_err), -2 * EScale, 2 * EScale)

\* C20: the turn sent is w / dt, where w is the difference of the target
\* heading and the current heading brought into (-pi, pi] by whole turns; a
\* difference of exactly pi gives w = +pi.
\* Stated for the answers that coast, whose target heading atan2(vy, vx) is
\* exact for the velocities of the telemetry.
C20_TurnWrappedHalfOpenAbove ==
    (Requested /\ ev.cmd.sent /\ ev.burn = 0) =>
        LET w == Quot(ev.cmd.turn, TicksPerSecond) IN
        /\ w * TicksPerSecond = ev.cmd.turn
        /\ (w - (ev.heading - cached_state.heading)) % (2 * PiUnits) = 0
        /\ -PiUnits < w
        /\ w <= PiUnits

\* C21: an apsis passage is not lost when a sample lands exactly on it or
\* when a stale snapshot is served several times: a coast request that sees,
\* within 0.1 of the target radius, a radial velocity whose sign is opposite
\* to the last non-zero one seen during the coast (zero samples and repeated
\* snapshots in between included) is answered with the circularization burn,
\* unless that burn was emitted before.
C21_ApsisNotLost ==
    (/\ Requested /\ cached_state.valid /\ ev.pre_first /\ ~ev.raised
     /\ near_target_of(cached_state)
     /\ ev.pre_sign * v_rad_of(cached_state) < 0)
        => (ev.pre_second \/ (ev.burn = 2 /\ ev.cmd.sent))

====
